---- MODULE Spec2Model ----
(***************************************************************************)
(* Model of src/main.py (disaster-sentinel): the event cache with its      *)
(* failure counter and 24h resync (safe_update_events), the dispatch pass  *)
(* (process_events_for_users) with the per-user throttle                   *)
(* (should_send_alert), and the threads that run them: the lifespan        *)
(* startup call, the two scheduler jobs and the /alerts/test-process       *)
(* endpoint.  The module holds no lock anywhere, so every access to a      *)
(* module-level object is a step of its own; code that touches only        *)
(* locals (a network call, the normalisation loop) is joined to the next   *)
(* shared access.                                                          *)
(*                                                                         *)
(* save_cache/save_users/save_alerts/save_last_alert write files that only *)
(* load_data reads, before the first step of any thread; they change       *)
(* nothing an operation reads and are not modelled as state.               *)
(***************************************************************************)
EXTENDS Integers, Sequences, FiniteSets, TLC

VARIABLES
    CACHE,        \* main.py:23  [last_update, events, consecutive_failures]
    USERS,        \* main.py:20  insertion-ordered dict, as a sequence of records
    ALERTS,       \* main.py:21  list of alert payloads
    LAST_ALERT,   \* main.py:22  user_id -> stored timestamp string
    clock,        \* datetime.now(timezone.utc), in hours
    pc,           \* position of each thread
    sue,          \* locals of safe_update_events, per thread
    dp,           \* locals of process_events_for_users / should_send_alert
    hist          \* history of the run (read by no action)

vars == <<CACHE, USERS, ALERTS, LAST_ALERT, clock, pc, sue, dp, hist>>

----------------------------------------------------------------------------
(* Bounds of the model *)

MaxFailures == 3      \* consecutive_failures is capped here
MaxTicks == 3         \* the clock advances this many times
MaxPushes == 2        \* requests to /alerts/push that are served
MaxMiles == 160       \* the farthest a subscriber is from an event

(* Program constants *)

MIN_HOURS == 6        \* should_send_alert(min_hours=6)
RESYNC_AFTER == 1     \* safe_update_events: consecutive_failures > 1
DEFAULT_RADIUS == 50  \* categorize_risk: RISK_RADIUS.get(type, 50)

Threads == {"startup", "fetch_job", "process_job", "manual"}
FetchThreads == {"startup", "fetch_job", "manual"}
DispatchThreads == {"process_job", "manual"}
UserIds == {"u1", "u2"}

----------------------------------------------------------------------------
(* Values *)

\* A canonical event as fetch_gdacs_events builds it (lines 272-278).  The
\* coordinate pair is a place on a line, in miles; ok = FALSE is a pair that
\* float() accepts and geopy rejects (latitude outside [-90, 90], nan).
Place(p) == [ok |-> TRUE, pos |-> p]
BadPlace == [ok |-> FALSE, pos |-> 0]

EvA == [id |-> "A", type |-> "Flood", coordinates |-> Place(0)]
EvB == [id |-> "B", type |-> "Tornado", coordinates |-> Place(30)]
EvC == [id |-> "C", type |-> "Volcano", coordinates |-> BadPlace]

\* Events of records that carry none of eventid, id, eventId: the id is
\* str("") (lines 199 and 273).
EvN == [id |-> "", type |-> "Drought", coordinates |-> Place(0)]
EvM == [id |-> "", type |-> "Landslide", coordinates |-> Place(30)]

\* The coordinates a subscriber can have (subscribe_user, lines 523-549).
UserPlaces == {Place(0), Place(100), BadPlace}

\* What the upstream feed can answer to the snapshot request and to the
\* resync request: any leading part of these.
SnapshotFeed == <<EvA, EvB>>
RecentFeed == <<EvA, EvC>>

\* A feed with records that carry no id.
NamelessSnapshot == <<EvN, EvA>>
NamelessRecent == <<EvM, EvA>>

\* The answer of a feed that is up and steady.
SteadyFeed == <<EvA, EvB>>

Prefixes(s) == {SubSeq(s, 1, n) : n \in 0..Len(s)}

\* The outcome of one HTTP exchange and of the loop over its records:
\*   ok      the body parses and every record normalises
\*   neterr  requests.get / raise_for_status / resp.json() raises
\*   shape   the body parses, the loop over it raises (results: null, a
\*           record that is no object, a numeric title)
Responses(feed) ==
    {[kind |-> "ok", events |-> e] : e \in Prefixes(feed)}
        \cup {[kind |-> "neterr", events |-> <<>>],
              [kind |-> "shape", events |-> <<>>]}

\* Timestamps: isoformat() of an instant, and the values load_data can bring.
NoRecord == [fmt |-> "none", t |-> 0]
IsoFormat(t) == [fmt |-> "iso", t |-> t]

\* What json.load can put in LAST_ALERT for a user (lines 60-66): no entry,
\* a timestamp, a string that is no timestamp, a number (any value that is
\* true and has no replace method).
NotATimestamp == [fmt |-> "text", t |-> 0]
ANumber == [fmt |-> "number", t |-> 0]
StoredValues == {NoRecord, IsoFormat(0), NotATimestamp, ANumber}

Ids(evs) == {evs[i].id : i \in 1..Len(evs)}

----------------------------------------------------------------------------
(* Normalisation of the upstream records, lines 232-278 *)

\* A value of a record of the feed under one key: a number or a numeric
\* string, a string float() rejects, a value float() accepts that is no
\* finite number ("nan", "inf", NaN, Infinity), or no value (key absent or
\* null).
Num(v) == [kind |-> "num", v |-> v]
Text == [kind |-> "text", v |-> 0]
NaN == [kind |-> "nan", v |-> 0]
Missing == [kind |-> "missing", v |-> 0]

\* str.lower() on the titles of the model.
Lower(title) ==
    CASE title = "Forest FIRE near flood plain" -> "forest fire near flood plain"
      [] title = "Flood" -> "flood"
      [] title = "Tropical Storm floods coast" -> "tropical storm floods coast"
      [] title = "Wildfire" -> "wildfire"
      [] title = "Cyclone" -> "cyclone"
      [] title = "Flood after volcano eruption" -> "flood after volcano eruption"
      [] title = "Volcano after Earthquake" -> "volcano after earthquake"
      [] title = "EARTHQUAKE" -> "earthquake"
      [] OTHER -> title

\* keyword in title, for the lower-case strings of the model.
Contains(title, keyword) ==
    keyword \in
        CASE title = "forest fire near flood plain" -> {"fire", "flood"}
          [] title = "flood" -> {"flood"}
          [] title = "tropical storm floods coast" -> {"storm", "flood"}
          [] title = "wildfire" -> {"wildfire", "fire"}
          [] title = "cyclone" -> {"cyclone"}
          [] title = "flood after volcano eruption" -> {"flood", "volcano"}
          [] title = "volcano after earthquake" -> {"volcano", "earthquake"}
          [] title = "earthquake" -> {"earthquake"}
          [] OTHER -> {}

\* The order of the tests with flood first.
map_gdacs_type_FloodFirst(gdacs_title) ==
    LET title == Lower(gdacs_title)
    IN  IF Contains(title, "flood") THEN "Flood"
        ELSE IF Contains(title, "fire") \/ Contains(title, "wildfire")
        THEN "Wildfire"
        ELSE IF \/ Contains(title, "storm") \/ Contains(title, "cyclone")
                \/ Contains(title, "hurricane") \/ Contains(title, "typhoon")
        THEN "Hurricane"
        ELSE IF Contains(title, "volcano") THEN "Volcano"
        ELSE IF Contains(title, "earthquake") THEN "Earthquake"
        ELSE gdacs_title

\* map_gdacs_type, lines 124-136.
map_gdacs_type(gdacs_title) ==
    LET title == Lower(gdacs_title)
    IN  IF Contains(title, "fire") \/ Contains(title, "wildfire")
        THEN "Wildfire"
        ELSE IF \/ Contains(title, "storm") \/ Contains(title, "cyclone")
                \/ Contains(title, "hurricane") \/ Contains(title, "typhoon")
        THEN "Hurricane"
        ELSE IF Contains(title, "flood") THEN "Flood"
        ELSE IF Contains(title, "volcano") THEN "Volcano"
        ELSE IF Contains(title, "earthquake") THEN "Earthquake"
        ELSE gdacs_title

\* Lines 233-239: the latitude and the longitude under their aliases.
LatOf(ev) == IF ev.latitude # Missing THEN ev.latitude ELSE ev.lat
LonOf(ev) ==
    IF ev.longitude # Missing THEN ev.longitude
    ELSE IF ev.lon # Missing THEN ev.lon ELSE ev.lng

\* Lines 244-248: float() raises ValueError or TypeError on the value.
FloatRaises(value) == value.kind = "text"

\* Lines 241-248: the record gets past both continue statements.
Keeps(ev) ==
    /\ LatOf(ev) # Missing
    /\ LonOf(ev) # Missing
    /\ ~FloatRaises(LatOf(ev))
    /\ ~FloatRaises(LonOf(ev))

\* Lines 250-278: the event built from a record that is kept.  The pair of
\* floats is a place when both are finite numbers.
EventOf(ev) ==
    [id |-> ev.eventid,
     type |-> map_gdacs_type(ev.eventtype),
     coordinates |-> IF LatOf(ev).kind = "num" /\ LonOf(ev).kind = "num"
                     THEN [ok |-> TRUE, pos |-> LatOf(ev).v]
                     ELSE [ok |-> FALSE, pos |-> 0]]

\* The loop of line 232 over the records of the body.
Normalise(data) ==
    LET kept == SelectSeq(data, Keeps)
    IN  [i \in 1..Len(kept) |-> EventOf(kept[i])]

\* A body of the feed: records with the axes under each alias, absent,
\* unparseable and not finite.
Record(eventid, latitude, lat, longitude, lon, lng, eventtype) ==
    [eventid |-> eventid, latitude |-> latitude, lat |-> lat,
     longitude |-> longitude, lon |-> lon, lng |-> lng,
     eventtype |-> eventtype]

RawFeed ==
    << Record("r1", Num(0), Missing, Num(0), Missing, Missing,
              "Forest FIRE near flood plain"),
       Record("r2", Missing, Missing, Num(0), Missing, Missing, "Flood"),
       Record("r3", Missing, Num(30), Missing, Missing, Num(30),
              "Tropical Storm floods coast"),
       Record("r4", Text, Missing, Num(0), Missing, Missing, "Wildfire"),
       Record("r5", Num(0), Missing, Missing, Missing, Missing, "Cyclone"),
       Record("r6", NaN, Missing, Num(0), Missing, Missing,
              "Flood after volcano eruption"),
       Record("r7", Num(30), Missing, Missing, Num(30), Missing,
              "Volcano after Earthquake"),
       Record("r8", Num(0), Missing, Num(0), Missing, Missing, "EARTHQUAKE"),
       Record("r9", Num(30), Missing, Text, Missing, Missing, "Flood"),
       Record("r10", Num(30), Missing, Num(30), Missing, Missing, "Drought") >>

----------------------------------------------------------------------------
(* The feed client *)

\* fetch_gdacs_events, lines 217-280: an exception of the HTTP exchange is
\* caught and answered with the empty list; the loop's result otherwise.
\* (A "shape" response raises out of the function: see Raises.)
fetch_gdacs_events(resp) ==
    IF resp.kind = "neterr" THEN <<>> ELSE resp.events

\* fetch_recent_gdacs_events, lines 139-214: the same, for the resync.
fetch_recent_gdacs_events(resp) ==
    IF resp.kind = "neterr" THEN <<>> ELSE resp.events

\* The loops at lines 153 and 232 stand outside the try of their function.
Raises(resp) == resp.kind = "shape"

\* hist records, for the run: the failures written since the last resync
\* merge (up to 2; 2 at the start), for each user the times of the
\* throttle checks that returned True, and the last request to /alerts/push.

\* The test of line 293 written with >= in place of >.
NeedsResync_AtOne(failures) == failures >= RESYNC_AFTER

\* Line 293: the test that sends a successful fetch into the resync.
NeedsResync(failures) == failures > RESYNC_AFTER

\* Lines 298-301: the resync candidates that are appended.
ResyncNew(existing, recent) ==
    SelectSeq(recent, LAMBDA e : e.id \notin Ids(existing))

----------------------------------------------------------------------------
(* Threads *)

\* Where a thread goes when safe_update_events returns: lifespan yields
\* (line 503), manual_process goes on to the dispatch pass (line 607), the
\* scheduler job ends.
AfterUpdate(t) ==
    CASE t = "startup" -> "serving"
      [] t = "manual" -> "proc_check"
      [] OTHER -> "idle"

InUpdate(t) ==
    pc[t] \in {"sue_fetch", "sue_resync", "sue_install", "sue_reset",
               "sue_exc_read", "sue_exc_write"}

InDispatch(t) ==
    pc[t] \in {"proc_check", "proc_iter", "proc_event", "proc_user",
               "ssa_write", "send", "proc_ret"}

Busy(t) == InUpdate(t) \/ InDispatch(t)

\* The cap on consecutive_failures: a further failure is admitted while the
\* threads already in the except branch cannot carry the counter past
\* MaxFailures, whatever value they have read.
Pending == {t \in Threads : pc[t] \in {"sue_exc_read", "sue_exc_write"}}
Highest ==
    LET seen == {CACHE.consecutive_failures}
                    \cup {sue[t].cf_read : t \in Pending}
    IN  CHOOSE m \in seen : \A n \in seen : n <= m
RoomToFail == Highest + Cardinality(Pending) < MaxFailures

\* events and cf_read are the locals of safe_update_events; the other
\* fields record what the invocation met: the kind of the snapshot answer,
\* the counter line 293 read, and whether the resync fetch was issued.
SueInit == [events |-> <<>>, cf_read |-> 0, fetched |-> "none",
            cf_seen |-> 0, resynced |-> FALSE]
\* list .. risk are the locals of process_events_for_users and of
\* should_send_alert; the other fields record the pass: how it ended, the
\* list line 453 read, the events walked, the pairs handled and those whose
\* exception line 481 caught, the last throttle check with the time of
\* the latest earlier check that returned True, and the hour the pass began.
NoEvent == [id |-> "", type |-> "", coordinates |-> BadPlace]
NoCall == [made |-> FALSE, user_id |-> "", now |-> 0, ret |-> FALSE,
           first |-> FALSE, last_true |-> 0, stored |-> "none"]
\* The requests to /alerts/push served so far, and the answer to the last.
NoPush == [n |-> 0, user_id |-> "", answer |-> "none"]
DpInit == [list |-> <<>>, ei |-> 0, event |-> NoEvent, ui |-> 0, size |-> 0,
           user_id |-> "", now |-> 0, risk |-> "None",
           status |-> "new", src |-> <<>>, seen |-> <<>>,
           visited |-> {}, caught |-> {}, call |-> NoCall, began |-> 0]

Init ==
    /\ CACHE = [last_update |-> NoRecord, events |-> <<>>,
                consecutive_failures |-> 0]
    /\ USERS = <<>>
    /\ ALERTS = <<>>
    /\ LAST_ALERT = [u \in UserIds |-> NoRecord]
    /\ clock = 0
    /\ pc = [t \in Threads |-> IF t = "startup" THEN "sue_fetch" ELSE "idle"]
    /\ sue = [t \in Threads |-> SueInit]
    /\ dp = [t \in Threads |-> DpInit]
    /\ hist = [since |-> 2, allowed |-> [u \in UserIds |-> <<>>],
               push |-> NoPush]

----------------------------------------------------------------------------
(* safe_update_events, lines 287-318 *)

Min(a, b) == IF a <= b THEN a ELSE b

\* Lines 291-293: fetch_disaster_data() and the test of the counter.  A
\* raising loop leads to the except branch with nothing assigned.
SUE_Fetch(t, resp) ==
    /\ pc[t] = "sue_fetch"
    /\ Raises(resp) => RoomToFail
    /\ pc' = [pc EXCEPT ![t] =
                IF Raises(resp) THEN "sue_exc_read"
                ELSE IF NeedsResync(CACHE.consecutive_failures)
                     THEN "sue_resync" ELSE "sue_install"]
    /\ sue' = [sue EXCEPT ![t] =
                 [@ EXCEPT !.events = IF Raises(resp) THEN <<>>
                                      ELSE fetch_gdacs_events(resp),
                           !.fetched = resp.kind,
                           !.cf_seen = CACHE.consecutive_failures]]
    /\ UNCHANGED <<CACHE, USERS, ALERTS, LAST_ALERT, clock, dp, hist>>

\* Lines 294-303: the resync fetch, the ids of the events still in CACHE
\* (line 298 reads CACHE, which line 305 has not yet replaced), and the
\* appends to the local list.
SUE_Resync(t, resp) ==
    /\ pc[t] = "sue_resync"
    /\ Raises(resp) => RoomToFail
    /\ pc' = [pc EXCEPT ![t] =
                IF Raises(resp) THEN "sue_exc_read" ELSE "sue_install"]
    /\ sue' = [sue EXCEPT ![t] =
                 [@ EXCEPT !.events =
                        IF Raises(resp) THEN @
                        ELSE @ \o ResyncNew(CACHE.events,
                                            fetch_recent_gdacs_events(resp)),
                           !.resynced = TRUE]]
    /\ hist' = IF Raises(resp) THEN hist ELSE [hist EXCEPT !.since = 0]
    /\ UNCHANGED <<CACHE, USERS, ALERTS, LAST_ALERT, clock, dp>>

\* A store that keeps the events of before and adds the fetched ones.
SUE_Install_Keep(t) ==
    /\ pc[t] = "sue_install"
    /\ CACHE' = [CACHE EXCEPT !.events = @ \o sue[t].events]
    /\ pc' = [pc EXCEPT ![t] = "sue_reset"]
    /\ UNCHANGED <<USERS, ALERTS, LAST_ALERT, clock, sue, dp, hist>>

\* Line 305: CACHE["events"] = events.
SUE_Install(t) ==
    /\ pc[t] = "sue_install"
    /\ CACHE' = [CACHE EXCEPT !.events = sue[t].events]
    /\ pc' = [pc EXCEPT ![t] = "sue_reset"]
    /\ UNCHANGED <<USERS, ALERTS, LAST_ALERT, clock, sue, dp, hist>>

\* Lines 306-309: CACHE["last_update"] = now (which no code reads but
\* health_check), CACHE["consecutive_failures"] = 0, save_cache, return.
SUE_Reset(t) ==
    /\ pc[t] = "sue_reset"
    /\ CACHE' = [CACHE EXCEPT !.last_update = IsoFormat(clock),
                              !.consecutive_failures = 0]
    /\ pc' = [pc EXCEPT ![t] = AfterUpdate(t)]
    /\ sue' = [sue EXCEPT ![t] = SueInit]
    /\ UNCHANGED <<USERS, ALERTS, LAST_ALERT, clock, dp, hist>>

\* Line 311, right-hand side: CACHE.get("consecutive_failures", 0).
SUE_ExcRead(t) ==
    /\ pc[t] = "sue_exc_read"
    /\ sue' = [sue EXCEPT ![t] =
                 [@ EXCEPT !.cf_read = CACHE.consecutive_failures]]
    /\ pc' = [pc EXCEPT ![t] = "sue_exc_write"]
    /\ UNCHANGED <<CACHE, USERS, ALERTS, LAST_ALERT, clock, dp, hist>>

\* Lines 311-318: the store of the incremented value, save_cache, return.
SUE_ExcWrite(t) ==
    /\ pc[t] = "sue_exc_write"
    /\ CACHE' = [CACHE EXCEPT !.consecutive_failures = sue[t].cf_read + 1]
    /\ pc' = [pc EXCEPT ![t] = AfterUpdate(t)]
    /\ sue' = [sue EXCEPT ![t] = SueInit]
    /\ hist' = [hist EXCEPT !.since = Min(@ + 1, 2)]
    /\ UNCHANGED <<USERS, ALERTS, LAST_ALERT, clock, dp>>

safe_update_events(t) ==
    \/ \E resp \in Responses(SnapshotFeed) : SUE_Fetch(t, resp)
    \/ \E resp \in Responses(RecentFeed) : SUE_Resync(t, resp)
    \/ SUE_Install(t)
    \/ SUE_Reset(t)
    \/ SUE_ExcRead(t)
    \/ SUE_ExcWrite(t)

----------------------------------------------------------------------------
(* The risk engine and the throttle *)

\* The table with another radius for Flood.
RISK_RADIUS_Flood30(disaster_type) ==
    CASE disaster_type = "Hurricane" -> 100
      [] disaster_type = "Flood" -> 30
      [] disaster_type = "Wildfire" -> 75
      [] disaster_type = "Tornado" -> 25
      [] disaster_type = "Earthquake" -> 60
      [] OTHER -> DEFAULT_RADIUS

\* RISK_RADIUS, lines 29-35, with the default of line 351.
RISK_RADIUS(disaster_type) ==
    CASE disaster_type = "Hurricane" -> 100
      [] disaster_type = "Flood" -> 50
      [] disaster_type = "Wildfire" -> 75
      [] disaster_type = "Tornado" -> 25
      [] disaster_type = "Earthquake" -> 60
      [] OTHER -> DEFAULT_RADIUS

\* The tiers with the first boundary left to the farther tier.
categorize_risk_Strict(user_dist, disaster_type) ==
    LET base_radius == RISK_RADIUS(disaster_type)
    IN  IF 2 * user_dist < base_radius THEN "High"
        ELSE IF user_dist <= base_radius THEN "Moderate"
        ELSE IF 2 * user_dist <= 3 * base_radius THEN "Low"
        ELSE "None"

\* categorize_risk, lines 350-358; user_dist in whole miles, so that
\* d <= 0.5 * R is 2 * d <= R and d <= 1.5 * R is 2 * d <= 3 * R.
categorize_risk(user_dist, disaster_type) ==
    LET base_radius == RISK_RADIUS(disaster_type)
    IN  IF 2 * user_dist <= base_radius THEN "High"
        ELSE IF user_dist <= base_radius THEN "Moderate"
        ELSE IF 2 * user_dist <= 3 * base_radius THEN "Low"
        ELSE "None"

\* classify_proximity, lines 361-368.
classify_proximity(risk_level) ==
    CASE risk_level = "High" -> "Immediate Danger"
      [] risk_level = "Moderate" -> "Caution Zone"
      [] risk_level = "Low" -> "Informational"
      [] OTHER -> "Unknown"

\* calculate_distance_miles, lines 346-347: geopy raises ValueError on a
\* latitude out of range; the distance along the line otherwise.
DistanceRaises(user_coords, disaster_coords) ==
    ~user_coords.ok \/ ~disaster_coords.ok

calculate_distance_miles(user_coords, disaster_coords) ==
    IF user_coords.pos >= disaster_coords.pos
    THEN user_coords.pos - disaster_coords.pos
    ELSE disaster_coords.pos - user_coords.pos

\* datetime.fromisoformat of a stored string (line 412).
FromIsoFormat(s) == s.t

\* The cooldown test of line 415 written with >= in place of >.
should_send_alert_AtSix(last_str, now) ==
    IF last_str.fmt = "none" THEN TRUE
    ELSE IF last_str.fmt = "iso"
         THEN now - FromIsoFormat(last_str) >= MIN_HOURS
         ELSE TRUE

\* should_send_alert, lines 402-424, as a function of the stored string
\* and of now: no record (line 406), the cooldown test (line 415), a string
\* that does not parse (line 419).
should_send_alert(last_str, now) ==
    IF last_str.fmt = "none" THEN TRUE
    ELSE IF last_str.fmt = "iso"
         THEN now - FromIsoFormat(last_str) > MIN_HOURS
         ELSE TRUE

----------------------------------------------------------------------------
(* process_events_for_users, lines 449-483 *)

\* The pass ends: past the last event, by the return of line 451, or by an
\* exception that leaves the function.
AfterDispatch(t) == "proc_ret"

\* A walk that reads CACHE["events"] again at every event.
IterList_Live(t) == CACHE.events

\* The list object the for statement of line 453 walks: the one line 453
\* read.  No installed list is ever appended to (line 301 appends to the
\* local list, before line 305), so the object is its value.
IterList(t) == dp[t].list

\* Line 450: the early return on an empty cache.
ProcCheck(t) ==
    /\ pc[t] = "proc_check"
    /\ IF CACHE.events = <<>>
       THEN /\ pc' = [pc EXCEPT ![t] = AfterDispatch(t)]
            /\ dp' = [dp EXCEPT ![t] = [DpInit EXCEPT !.status = "empty"]]
       ELSE /\ pc' = [pc EXCEPT ![t] = "proc_iter"]
            /\ dp' = [dp EXCEPT ![t] = [DpInit EXCEPT !.status = "running",
                                                      !.began = clock]]
    /\ UNCHANGED <<CACHE, USERS, ALERTS, LAST_ALERT, clock, sue, hist>>

\* Line 453: the for statement reads CACHE["events"].
ProcIter(t) ==
    /\ pc[t] = "proc_iter"
    /\ dp' = [dp EXCEPT ![t] = [@ EXCEPT !.list = CACHE.events,
                                         !.src = CACHE.events,
                                         !.ei = 1]]
    /\ pc' = [pc EXCEPT ![t] = "proc_event"]
    /\ UNCHANGED <<CACHE, USERS, ALERTS, LAST_ALERT, clock, sue, hist>>

\* Lines 453-460: the next event of the list, and the start of the loop
\* over USERS.items(), which notes the size of the dict.
ProcEvent(t) ==
    /\ pc[t] = "proc_event"
    /\ IF dp[t].ei > Len(IterList(t))
       THEN /\ pc' = [pc EXCEPT ![t] = AfterDispatch(t)]
            /\ dp' = [dp EXCEPT ![t] = [@ EXCEPT !.status = "done"]]
       ELSE /\ pc' = [pc EXCEPT ![t] = "proc_user"]
            /\ dp' = [dp EXCEPT ![t] =
                        [@ EXCEPT !.event = IterList(t)[dp[t].ei],
                                  !.seen = Append(@, IterList(t)[dp[t].ei]),
                                  !.size = Len(USERS),
                                  !.ui = 1]]
    /\ UNCHANGED <<CACHE, USERS, ALERTS, LAST_ALERT, clock, sue, hist>>

\* A pass without the except clause of line 481.
AfterPairError_Abort(t) == AfterDispatch(t)

\* What the except clause of line 481 does with an exception of the pair:
\* the pass goes on with the next subscriber.
AfterPairError(t) == "proc_user"

\* Line 412: last_str.replace raises AttributeError on a value that is no
\* string, which the except clause of line 419 does not name.
ThrottleRaises(last_str) == last_str.fmt = "number"

\* The record of a throttle check for user_id that answers ret (FALSE for
\* a call that raises), with the kind of value it found stored.
Called(user_id, ret) ==
    LET before == hist.allowed[user_id]
    IN  [made |-> TRUE, user_id |-> user_id, now |-> clock, ret |-> ret,
         first |-> before = <<>>,
         last_true |-> IF before = <<>> THEN 0 ELSE before[Len(before)],
         stored |-> LAST_ALERT[user_id].fmt]

\* Lines 460-479: the next subscriber (a dict that changed size raises out
\* of the pass), the distance, the risk, and lines 403-404 of
\* should_send_alert.
ProcUser(t) ==
    /\ pc[t] = "proc_user"
    /\ UNCHANGED <<CACHE, USERS, ALERTS, LAST_ALERT, clock, sue, hist>>
    /\ IF Len(USERS) # dp[t].size
       THEN /\ pc' = [pc EXCEPT ![t] = AfterDispatch(t)]
            /\ dp' = [dp EXCEPT ![t] = [@ EXCEPT !.status = "aborted"]]
       ELSE IF dp[t].ui > dp[t].size
       THEN /\ pc' = [pc EXCEPT ![t] = "proc_event"]
            /\ dp' = [dp EXCEPT ![t] = [@ EXCEPT !.ei = @ + 1]]
       ELSE LET user == USERS[dp[t].ui]
                event == dp[t].event
                pair == <<dp[t].ei, dp[t].ui>>
                dist == calculate_distance_miles(user.coords, event.coordinates)
                risk == categorize_risk(dist, event.type)
            IN  IF DistanceRaises(user.coords, event.coordinates)
                THEN /\ pc' = [pc EXCEPT ![t] = AfterPairError(t)]
                     /\ dp' = [dp EXCEPT ![t] =
                                 [@ EXCEPT !.ui = @ + 1,
                                           !.visited = @ \cup {pair},
                                           !.caught = @ \cup {pair}]]
                ELSE IF risk = "None"
                THEN /\ pc' = [pc EXCEPT ![t] = "proc_user"]
                     /\ dp' = [dp EXCEPT ![t] =
                                 [@ EXCEPT !.ui = @ + 1,
                                           !.visited = @ \cup {pair}]]
                ELSE IF ThrottleRaises(LAST_ALERT[user.user_id])
                THEN /\ pc' = [pc EXCEPT ![t] = AfterPairError(t)]
                     /\ dp' = [dp EXCEPT ![t] =
                                 [@ EXCEPT !.ui = @ + 1,
                                           !.visited = @ \cup {pair},
                                           !.caught = @ \cup {pair},
                                           !.call = Called(user.user_id, FALSE)]]
                ELSE LET ret == should_send_alert(LAST_ALERT[user.user_id],
                                                  clock)
                         call == Called(user.user_id, ret)
                     IN  IF ret
                         THEN /\ pc' = [pc EXCEPT ![t] = "ssa_write"]
                              /\ dp' = [dp EXCEPT ![t] =
                                          [@ EXCEPT !.user_id = user.user_id,
                                                    !.now = clock,
                                                    !.risk = risk,
                                                    !.visited = @ \cup {pair},
                                                    !.call = call]]
                         ELSE /\ pc' = [pc EXCEPT ![t] = "proc_user"]
                              /\ dp' = [dp EXCEPT ![t] =
                                          [@ EXCEPT !.ui = @ + 1,
                                                    !.visited = @ \cup {pair},
                                                    !.call = call]]

\* A throttle that answers True and stores nothing.
SSA_Write_NoStore(t) ==
    /\ pc[t] = "ssa_write"
    /\ LAST_ALERT' = LAST_ALERT
    /\ hist' = [hist EXCEPT !.allowed[dp[t].user_id] = Append(@, dp[t].now)]
    /\ pc' = [pc EXCEPT ![t] = "send"]
    /\ UNCHANGED <<CACHE, USERS, ALERTS, clock, sue, dp>>

\* Lines 407-409 and 416-418: LAST_ALERT[user_id] = now.isoformat(), and
\* should_send_alert returns True.
SSA_Write(t) ==
    /\ pc[t] = "ssa_write"
    /\ LAST_ALERT' = [LAST_ALERT EXCEPT ![dp[t].user_id] = IsoFormat(dp[t].now)]
    /\ hist' = [hist EXCEPT !.allowed[dp[t].user_id] = Append(@, dp[t].now)]
    /\ pc' = [pc EXCEPT ![t] = "send"]
    /\ UNCHANGED <<CACHE, USERS, ALERTS, clock, sue, dp>>

\* A list that takes the new payload in front.
AppendAlert_Front(log, payload) == <<payload>> \o log

\* ALERTS.append(payload), lines 443 and 592: one call of list.append, which
\* the interpreter runs as a whole.
AppendAlert(log, payload) == Append(log, payload)

\* The payload of lines 431-442, with the fields that come from the pair.
Payload(t) ==
    [user_id |-> dp[t].user_id,
     disaster_type |-> dp[t].event.type,
     risk_level |-> dp[t].risk,
     proximity_level |-> classify_proximity(dp[t].risk),
     event_id |-> dp[t].event.id]

\* send_alert, lines 427-446: ALERTS.append(payload).
send_alert(t) ==
    /\ pc[t] = "send"
    /\ ALERTS' = AppendAlert(ALERTS, Payload(t))
    /\ pc' = [pc EXCEPT ![t] = "proc_user"]
    /\ dp' = [dp EXCEPT ![t] = [@ EXCEPT !.ui = @ + 1]]
    /\ UNCHANGED <<CACHE, USERS, LAST_ALERT, clock, sue, hist>>

\* The job ends, or manual_process answers (line 608).
ProcReturn(t) ==
    /\ pc[t] = "proc_ret"
    /\ pc' = [pc EXCEPT ![t] = "idle"]
    /\ dp' = [dp EXCEPT ![t] = DpInit]
    /\ UNCHANGED <<CACHE, USERS, ALERTS, LAST_ALERT, clock, sue, hist>>

\* The walk over the events and the subscribers.
WalkEvents(t) ==
    \/ ProcCheck(t)
    \/ ProcIter(t)
    \/ ProcEvent(t)
    \/ ProcUser(t)
    \/ ProcReturn(t)

process_events_for_users(t) ==
    \/ WalkEvents(t)
    \/ SSA_Write(t)
    \/ send_alert(t)

----------------------------------------------------------------------------
(* The triggers *)

\* serial = TRUE admits one invocation at a time (the program with its
\* handlers run one after the other); serial = FALSE is the program as it
\* runs: the scheduler's pool, the event loop and the request pool.
\* lifespan calls safe_update_events right after scheduler.start() and
\* before it yields (lines 497-503): the first tick of a job is minutes
\* away and no request is served yet, so the startup call runs alone.
MayStart(t, serial) ==
    /\ pc[t] = "idle"
    /\ pc["startup"] = "serving"
    /\ serial => \A o \in Threads : ~Busy(o)

\* scheduler.add_job(safe_update_events, "interval", minutes=30), line 494.
FetchJob(serial) ==
    /\ MayStart("fetch_job", serial)
    /\ pc' = [pc EXCEPT !["fetch_job"] = "sue_fetch"]
    /\ UNCHANGED <<CACHE, USERS, ALERTS, LAST_ALERT, clock, sue, dp, hist>>

\* manual_process, lines 604-608; requests are served once lifespan yields.
manual_process(serial) ==
    /\ MayStart("manual", serial)
    /\ pc' = [pc EXCEPT !["manual"] = "sue_fetch"]
    /\ UNCHANGED <<CACHE, USERS, ALERTS, LAST_ALERT, clock, sue, dp, hist>>

\* scheduler.add_job(process_events_for_users, "interval", minutes=5).
ProcessJob(serial) ==
    /\ MayStart("process_job", serial)
    /\ pc' = [pc EXCEPT !["process_job"] = "proc_check"]
    /\ UNCHANGED <<CACHE, USERS, ALERTS, LAST_ALERT, clock, sue, dp, hist>>

\* subscribe_user, lines 519-553: USERS[req.user_id] = {...}; a new key goes
\* to the end of the dict, a known key keeps its place.
IndexOf(user_id) ==
    IF \E i \in 1..Len(USERS) : USERS[i].user_id = user_id
    THEN CHOOSE i \in 1..Len(USERS) : USERS[i].user_id = user_id
    ELSE 0

subscribe_user(user_id, coords, serial) ==
    /\ pc["startup"] = "serving"
    /\ serial => \A o \in Threads : ~Busy(o)
    /\ LET user == [user_id |-> user_id, coords |-> coords]
       IN  USERS' = IF IndexOf(user_id) = 0 THEN Append(USERS, user)
                    ELSE [USERS EXCEPT ![IndexOf(user_id)] = user]
    /\ UNCHANGED <<CACHE, ALERTS, LAST_ALERT, clock, pc, sue, dp, hist>>

\* A request to /alerts/push fails with 404 when USERS.get(req.user_id) is
\* None or empty (lines 575-577).
PushKnown_Any(user_id) == TRUE

PushKnown(user_id) == IndexOf(user_id) # 0

\* The payload of lines 579-590.
ManualPayload(user_id) ==
    [user_id |-> user_id,
     disaster_type |-> "Manual",
     risk_level |-> "Unknown",
     proximity_level |-> classify_proximity("Unknown"),
     event_id |-> "manual"]

\* push_notification, lines 573-601.
push_notification(user_id) ==
    /\ pc["startup"] = "serving"
    /\ hist.push.n < MaxPushes
    /\ IF PushKnown(user_id)
       THEN /\ ALERTS' = AppendAlert(ALERTS, ManualPayload(user_id))
            /\ hist' = [hist EXCEPT !.push = [n |-> @.n + 1, user_id |-> user_id,
                                              answer |-> "sent"]]
       ELSE /\ ALERTS' = ALERTS
            /\ hist' = [hist EXCEPT !.push = [n |-> @.n + 1, user_id |-> user_id,
                                              answer |-> "404"]]
    /\ UNCHANGED <<CACHE, USERS, LAST_ALERT, clock, pc, sue, dp>>

\* Time passes, half a cooldown at a time.
TickHours == MIN_HOURS \div 2

Tick(serial) ==
    /\ clock < MaxTicks * TickHours
    /\ serial => \A o \in Threads : ~Busy(o)
    /\ clock' = clock + TickHours
    /\ UNCHANGED <<CACHE, USERS, ALERTS, LAST_ALERT, pc, sue, dp, hist>>

----------------------------------------------------------------------------
(* Specifications *)

Step(serial) ==
    \/ \E t \in FetchThreads : safe_update_events(t)
    \/ \E t \in DispatchThreads : process_events_for_users(t)
    \/ FetchJob(serial)
    \/ ProcessJob(serial)
    \/ manual_process(serial)
    \/ \E u \in UserIds, c \in UserPlaces : subscribe_user(u, c, serial)
    \/ \E u \in UserIds : push_notification(u)
    \/ Tick(serial)

\* The program: every thread takes its steps whenever it is scheduled.
Next == Step(FALSE)
Spec == Init /\ [][Next]_vars

\* The cache side: the feed answers anything, nobody has subscribed, and
\* the fetch job runs beside the /alerts/test-process endpoint, whose
\* dispatch pass walks the events.
CacheStep(serial) ==
    \/ \E t \in FetchThreads : safe_update_events(t)
    \/ WalkEvents("manual")
    \/ FetchJob(serial)
    \/ manual_process(serial)

NextCache == CacheStep(FALSE)
SpecCache == Init /\ [][NextCache]_vars

\* The same with the handlers run one at a time, each to its end.
NextCacheSerial == CacheStep(TRUE)
SpecCacheSerial == Init /\ [][NextCacheSerial]_vars

\* The handlers one at a time, with time passing between them.
NextCacheClock == CacheStep(TRUE) \/ Tick(TRUE)
SpecCacheClock == Init /\ [][NextCacheClock]_vars

\* The cache side for a feed with records that carry no id; the resync
\* request is answered in full.
NamelessUpdate(t) ==
    \/ \E resp \in Responses(NamelessSnapshot) : SUE_Fetch(t, resp)
    \/ SUE_Resync(t, [kind |-> "ok", events |-> NamelessRecent])
    \/ SUE_Install(t)
    \/ SUE_Reset(t)
    \/ SUE_ExcRead(t)
    \/ SUE_ExcWrite(t)

NextNameless ==
    \/ \E t \in FetchThreads : NamelessUpdate(t)
    \/ WalkEvents("manual")
    \/ FetchJob(TRUE)
    \/ manual_process(TRUE)

SpecNameless == Init /\ [][NextNameless]_vars

\* The dispatch side: the feed is up and always answers `feed` (the fetch
\* job then changes nothing a pass reads and is left out), the subscribers
\* `users` come with coordinates of `places`, and time passes.
SteadyUpdate(t, feed) ==
    \/ SUE_Fetch(t, [kind |-> "ok", events |-> feed])
    \/ SUE_Install(t)
    \/ SUE_Reset(t)

DispatchStep(serial, feed, users, places) ==
    \/ \E t \in {"startup", "manual"} : SteadyUpdate(t, feed)
    \/ \E t \in DispatchThreads : process_events_for_users(t)
    \/ ProcessJob(serial)
    \/ manual_process(serial)
    \/ \E u \in users, c \in places : subscribe_user(u, c, serial)
    \/ Tick(serial)

\* The process job beside the endpoint, for one subscriber and one event.
NextDispatch == DispatchStep(FALSE, <<EvA>>, {"u1"}, {Place(0)})
SpecDispatch == Init /\ [][NextDispatch]_vars

\* The handlers one at a time, for every subscriber and place.
NextDispatchSerial == DispatchStep(TRUE, SteadyFeed, UserIds, UserPlaces)
SpecDispatchSerial == Init /\ [][NextDispatchSerial]_vars

\* One pass at a time over two events, the nearer-reaching one second, while
\* time passes during the pass as well: line 403 reads the clock anew at
\* every throttle check.
PassFeed == <<EvB, EvA>>
PassPlaces == {Place(0), Place(70)}

NextPass ==
    \/ \E t \in {"startup", "manual"} : SteadyUpdate(t, PassFeed)
    \/ \E t \in DispatchThreads : process_events_for_users(t)
    \/ ProcessJob(TRUE)
    \/ manual_process(TRUE)
    \/ \E u \in UserIds, c \in PassPlaces : subscribe_user(u, c, TRUE)
    \/ Tick(FALSE)

SpecPass == Init /\ [][NextPass]_vars

\* The alert log: the process job beside the two endpoints that append to
\* ALERTS, at one instant; u1 subscribes, u2 never does.
NextAlerts ==
    \/ \E t \in {"startup", "manual"} : SteadyUpdate(t, <<EvA>>)
    \/ \E t \in DispatchThreads : process_events_for_users(t)
    \/ ProcessJob(FALSE)
    \/ manual_process(FALSE)
    \/ subscribe_user("u1", Place(0), FALSE)
    \/ \E u \in UserIds : push_notification(u)

SpecAlerts == Init /\ [][NextAlerts]_vars

\* The process after load_data has read a LAST_ALERT document of any
\* content: one subscriber, one event, the handlers one at a time.
InitLoaded ==
    /\ CACHE = [last_update |-> NoRecord, events |-> <<>>,
                consecutive_failures |-> 0]
    /\ USERS = <<>>
    /\ ALERTS = <<>>
    /\ LAST_ALERT \in [UserIds -> StoredValues]
    /\ clock = 0
    /\ pc = [t \in Threads |-> IF t = "startup" THEN "sue_fetch" ELSE "idle"]
    /\ sue = [t \in Threads |-> SueInit]
    /\ dp = [t \in Threads |-> DpInit]
    /\ hist = [since |-> 2, allowed |-> [u \in UserIds |-> <<>>],
               push |-> NoPush]

NextLoaded == DispatchStep(TRUE, <<EvA>>, {"u1"}, {Place(0)})
SpecLoaded == InitLoaded /\ [][NextLoaded]_vars

\* The risk engine: the process job in a process that serves one subscriber
\* and has one event in its cache, of any type map_gdacs_type can give and
\* at any distance up to MaxMiles.
EventTypes ==
    {"Hurricane", "Flood", "Wildfire", "Tornado", "Earthquake", "Volcano"}

InitRisk ==
    /\ \E ty \in EventTypes :
         CACHE = [last_update |-> IsoFormat(0),
                  events |-> <<[id |-> "A", type |-> ty,
                                coordinates |-> Place(0)]>>,
                  consecutive_failures |-> 0]
    /\ \E d \in 0..MaxMiles :
         USERS = <<[user_id |-> "u1", coords |-> Place(d)]>>
    /\ ALERTS = <<>>
    /\ LAST_ALERT = [u \in UserIds |-> NoRecord]
    /\ clock = 0
    /\ pc = [t \in Threads |-> IF t = "startup" THEN "serving" ELSE "idle"]
    /\ sue = [t \in Threads |-> SueInit]
    /\ dp = [t \in Threads |-> DpInit]
    /\ hist = [since |-> 2, allowed |-> [u \in UserIds |-> <<>>],
               push |-> NoPush]

NextRisk ==
    \/ ProcessJob(TRUE)
    \/ process_events_for_users("process_job")

SpecRisk == InitRisk /\ [][NextRisk]_vars

\* The fetch of a body of records by the startup call, the fetch job and
\* the endpoint, the body any leading part of RawFeed.
NormaliseUpdate(t) ==
    \/ \E data \in Prefixes(RawFeed) :
         SUE_Fetch(t, [kind |-> "ok", events |-> Normalise(data)])
    \/ SUE_Install(t)
    \/ SUE_Reset(t)

NextNormalise ==
    \/ \E t \in FetchThreads : NormaliseUpdate(t)
    \/ WalkEvents("manual")
    \/ FetchJob(TRUE)
    \/ manual_process(TRUE)

SpecNormalise == Init /\ [][NextNormalise]_vars

----------------------------------------------------------------------------
(* The claims *)

Failed(t) == sue[t].fetched \in {"neterr", "shape"}

\* The invocation of t returns in this step.
Returns(t) ==
    /\ pc[t] \in {"sue_reset", "sue_exc_write"}
    /\ pc'[t] # pc[t]

NoDuplicateIds(evs) ==
    \A i, j \in 1..Len(evs) : evs[i].id = evs[j].id => i = j

IsPrefix(s, r) == Len(s) <= Len(r) /\ s = SubSeq(r, 1, Len(s))

\* C1: when the snapshot fetch of an invocation failed, no step of that
\* invocation changes CACHE.events.
C1_FailedFetchKeepsEvents ==
    [][\A t \in FetchThreads :
         (Failed(t) /\ pc'[t] # pc[t]) => CACHE'.events = CACHE.events]_vars

\* C2: an invocation whose snapshot fetch failed returns with the counter
\* one higher than it was.
C2_FailedFetchIncrements ==
    [][\A t \in FetchThreads :
         (Failed(t) /\ Returns(t))
             => CACHE'.consecutive_failures = CACHE.consecutive_failures + 1]_vars

\* C3: after a recovering fetch (the answers of the feed have unique,
\* non-empty ids) no id occurs twice in CACHE.events.
C3_ResyncDedup ==
    \A t \in FetchThreads :
        (pc[t] = "sue_reset" /\ sue[t].resynced) => NoDuplicateIds(CACHE.events)

\* C4: a resync merge is performed only when at least two failures have
\* been recorded since the resync merge before it.
C4_OneResyncPerOutage ==
    [][\A t \in FetchThreads :
         (pc[t] = "sue_resync" /\ pc'[t] = "sue_install") => hist.since >= 2]_vars

\* C5: a successful fetch issues the resync fetch if and only if the
\* counter was above 1 when the fetch returned.
C5_ResyncIffDegraded ==
    \A t \in FetchThreads :
        (sue[t].fetched = "ok" /\ pc[t] \in {"sue_resync", "sue_install", "sue_reset"})
            => ((pc[t] = "sue_resync" \/ sue[t].resynced) <=> sue[t].cf_seen > 1)

C5_Witness ==
    \E t \in FetchThreads :
        /\ sue[t].fetched = "ok"
        /\ pc[t] = "sue_install"
        /\ sue[t].resynced
        /\ sue[t].cf_seen = 2

\* C6: a throttle check returns True if and only if it is the first for the
\* user or more than 6 hours have passed since the latest check for the
\* user that returned True.
C6_ThrottleSequence ==
    \A t \in DispatchThreads :
        dp[t].call.made =>
            (dp[t].call.ret <=>
                (dp[t].call.first \/ dp[t].call.now - dp[t].call.last_true > 6))

C6_Witness ==
    \E t \in DispatchThreads :
        /\ dp[t].call.made
        /\ ~dp[t].call.ret
        /\ Len(hist.allowed[dp[t].call.user_id]) = 2

\* C7: any two throttle checks for a user that returned True are more than
\* 6 hours apart.
C7_OneAlertPerCooldown ==
    \A u \in UserIds :
        \A i, j \in 1..Len(hist.allowed[u]) :
            i < j => hist.allowed[u][j] - hist.allowed[u][i] > 6

\* C8: a pass that got past line 450 ends only when every pair of an event
\* of the list and a subscriber has been handled, the pairs whose exception
\* was caught among them.
AllPairs(t) == (1..Len(dp[t].src)) \X (1..Len(USERS))

C8_PairFailureSkipped ==
    \A t \in DispatchThreads :
        (pc[t] = "proc_ret" /\ dp[t].status # "empty")
            => /\ dp[t].visited = AllPairs(t)
               /\ dp[t].caught \subseteq dp[t].visited

Later(p, q) == q[1] > p[1] \/ (q[1] = p[1] /\ q[2] > p[2])

C8_Witness ==
    \E t \in DispatchThreads :
        /\ pc[t] = "proc_ret"
        /\ \E p \in dp[t].caught :
             \E q \in dp[t].visited \ dp[t].caught : Later(p, q)

\* C9: the events a pass has walked are a leading part of the list line 453
\* read, the whole of it when the pass ends past the last event; and
\* CACHE.events changes only by line 305 storing the finished local list.
C9_WalkIsOneList ==
    \A t \in DispatchThreads :
        /\ IsPrefix(dp[t].seen, dp[t].src)
        /\ dp[t].status = "done" => dp[t].seen = dp[t].src

C9_Witness ==
    \E t \in DispatchThreads :
        /\ pc[t] = "proc_user"
        /\ dp[t].ei = 1
        /\ Len(dp[t].src) = 2
        /\ CACHE.events # dp[t].src
        /\ \E o \in FetchThreads : pc[o] = "sue_reset" /\ sue[o].resynced

\* C10: the store of line 311 leaves the counter one above the value it
\* had just before the store.
C10_AtomicIncrement ==
    [][\A t \in FetchThreads :
         (pc[t] = "sue_exc_write" /\ pc'[t] # pc[t])
             => CACHE'.consecutive_failures = CACHE.consecutive_failures + 1]_vars

\* C11: ALERTS only grows at its end, one payload at a time: every step
\* leaves the log as it was or with one payload more behind it, and every
\* step of send_alert and every push that is answered adds its payload.
C11_AlertLogAppendOnly ==
    [][/\ IsPrefix(ALERTS, ALERTS')
       /\ Len(ALERTS') <= Len(ALERTS) + 1
       /\ \A t \in DispatchThreads :
             (pc[t] = "send" /\ pc'[t] # "send")
                 => ALERTS' = ALERTS \o <<Payload(t)>>
       /\ (hist'.push.n # hist.push.n /\ hist'.push.answer = "sent")
             => ALERTS' = ALERTS \o <<ManualPayload(hist'.push.user_id)>>]_vars

C11_Witness ==
    /\ Len(ALERTS) = 4
    /\ ALERTS[1].event_id = "A"
    /\ ALERTS[2].event_id = "manual"
    /\ ALERTS[3].event_id = "A"
    /\ ALERTS[4].event_id = "manual"

\* C12: no store to LAST_ALERT[u] puts an earlier time in the place of a
\* later one.
C12_LastAlertMonotonic ==
    [][\A u \in UserIds :
         (LAST_ALERT[u].fmt = "iso" /\ LAST_ALERT'[u].fmt = "iso")
             => FromIsoFormat(LAST_ALERT'[u]) >= FromIsoFormat(LAST_ALERT[u])]_vars

\* C13: an invocation whose snapshot fetch succeeded with the counter at 0
\* or 1 returns with CACHE.events equal to the list normalised from the
\* snapshot, last_update at the time of the invocation, and the counter 0.
C13_SuccessReplaces ==
    [][\A t \in FetchThreads :
         (Returns(t) /\ sue[t].fetched = "ok" /\ sue[t].cf_seen <= 1)
             => /\ ~sue[t].resynced
                /\ CACHE'.events = sue[t].events
                /\ CACHE'.last_update = IsoFormat(clock)
                /\ CACHE'.consecutive_failures = 0]_vars

C13_Witness ==
    \E t \in FetchThreads :
        /\ pc[t] = "sue_reset"
        /\ sue[t].fetched = "ok"
        /\ sue[t].cf_seen = 1
        /\ sue[t].events = <<EvA>>
        /\ CACHE.events = <<EvA>>
        /\ clock > 0
        /\ CACHE.last_update = IsoFormat(0)

\* C14: after a resync merge every candidate of the resync answer whose id
\* is the empty string is in the list that line 305 is about to store.
C14_EmptyIdAlwaysNew ==
    \A t \in FetchThreads :
        (pc[t] = "sue_install" /\ sue[t].resynced)
            => \A i \in 1..Len(NamelessRecent) :
                 NamelessRecent[i].id = ""
                     => \E j \in 1..Len(sue[t].events) :
                          sue[t].events[j] = NamelessRecent[i]

\* C15: a throttle check that finds a stored value that is no timestamp
\* returns True, and the entry then holds the time of the check.
C15_MalformedReseeds ==
    \A t \in DispatchThreads :
        (dp[t].call.made /\ dp[t].call.stored \in {"text", "number"})
            => /\ dp[t].call.ret
               /\ pc[t] = "send"
                    => LAST_ALERT[dp[t].call.user_id] = IsoFormat(dp[t].call.now)

\* The one subscriber and the one event of SpecRisk: the miles between
\* them, the type, and whether the pass of t has handled the pair.
Miles == calculate_distance_miles(USERS[1].coords, CACHE.events[1].coordinates)
TypeOfEvent == CACHE.events[1].type
Handled(t) == <<1, 1>> \in dp[t].visited

\* The base radius as the specification gives it.
BaseRadius ==
    CASE TypeOfEvent = "Hurricane" -> 100
      [] TypeOfEvent = "Flood" -> 50
      [] TypeOfEvent = "Wildfire" -> 75
      [] TypeOfEvent = "Tornado" -> 25
      [] TypeOfEvent = "Earthquake" -> 60
      [] OTHER -> 50

Rank(tier) ==
    CASE tier = "High" -> 3
      [] tier = "Moderate" -> 2
      [] tier = "Low" -> 1
      [] OTHER -> 0

\* C16: for every type and distance d, the tier is High iff d <= 0.5R,
\* Moderate iff 0.5R < d <= R, Low iff R < d <= 1.5R, and there is no tier
\* (should_send_alert is not called) iff d > 1.5R; a mile farther the tier
\* is no better.
C16_RiskTiers ==
    \A t \in DispatchThreads :
        Handled(t) =>
            /\ Rank(categorize_risk(Miles + 1, TypeOfEvent))
                   <= Rank(categorize_risk(Miles, TypeOfEvent))
            /\ dp[t].call.made <=> 2 * Miles <= 3 * BaseRadius
            /\ dp[t].call.ret =>
                 /\ dp[t].risk = "High" <=> 2 * Miles <= BaseRadius
                 /\ dp[t].risk = "Moderate"
                      <=> (BaseRadius < 2 * Miles /\ Miles <= BaseRadius)
                 /\ dp[t].risk = "Low"
                      <=> (BaseRadius < Miles /\ 2 * Miles <= 3 * BaseRadius)

C16_Witness ==
    \E t \in DispatchThreads :
        /\ Handled(t)
        /\ dp[t].call.ret
        /\ TypeOfEvent = "Earthquake"
        /\ Miles = 30
        /\ dp[t].risk = "High"

\* C17 as stated: a Flood 20 miles away is alerted as "Moderate" /
\* "Caution Zone", a Flood 80 miles away is not alerted.
C17_FloodAt20Moderate ==
    TypeOfEvent = "Flood" =>
        /\ Miles = 20 =>
             \A i \in 1..Len(ALERTS) :
                 /\ ALERTS[i].risk_level = "Moderate"
                 /\ ALERTS[i].proximity_level = "Caution Zone"
        /\ Miles = 80 => ALERTS = <<>>

\* C17 amended: a Flood 20 miles away (20 <= 0.5 * 50) is alerted as
\* "High" / "Immediate Danger" by the first pass, a Flood 30 miles away as
\* "Moderate" / "Caution Zone", and a Flood 80 miles away is not alerted.
C17_FloodEndToEnd ==
    TypeOfEvent = "Flood" =>
        /\ Miles = 20 =>
             /\ \A i \in 1..Len(ALERTS) :
                  /\ ALERTS[i].user_id = "u1"
                  /\ ALERTS[i].disaster_type = "Flood"
                  /\ ALERTS[i].risk_level = "High"
                  /\ ALERTS[i].proximity_level = "Immediate Danger"
             /\ \A t \in DispatchThreads : pc[t] = "proc_ret" => Len(ALERTS) = 1
        /\ Miles = 30 =>
             /\ \A i \in 1..Len(ALERTS) :
                  /\ ALERTS[i].risk_level = "Moderate"
                  /\ ALERTS[i].proximity_level = "Caution Zone"
             /\ \A t \in DispatchThreads : pc[t] = "proc_ret" => Len(ALERTS) = 1
        /\ Miles = 80 =>
             /\ ALERTS = <<>>
             /\ \A t \in DispatchThreads : ~dp[t].call.made

C17_Witness ==
    /\ TypeOfEvent = "Flood"
    /\ Miles = 20
    /\ pc["process_job"] = "proc_ret"
    /\ Len(ALERTS) = 1
    /\ ALERTS[1].risk_level = "High"

Subscribed(user_id) == \E i \in 1..Len(USERS) : USERS[i].user_id = user_id

\* C18: a request to /alerts/push is answered 404 iff its user_id is not
\* in USERS, and then ALERTS, USERS, LAST_ALERT and CACHE are left as they
\* were; a request for a subscriber appends one manual alert for that
\* subscriber and changes nothing else.
C18_PushUnknownUser ==
    [][hist'.push.n # hist.push.n =>
         /\ hist'.push.answer = "404" <=> ~Subscribed(hist'.push.user_id)
         /\ UNCHANGED <<USERS, LAST_ALERT, CACHE>>
         /\ IF Subscribed(hist'.push.user_id)
            THEN ALERTS' = ALERTS \o <<ManualPayload(hist'.push.user_id)>>
            ELSE ALERTS' = ALERTS]_vars

C18_Witness ==
    /\ hist.push.n = 2
    /\ hist.push.answer = "404"
    /\ hist.push.user_id = "u2"
    /\ Subscribed("u1")
    /\ Len(ALERTS) = 1
    /\ ALERTS[1].event_id = "manual"

\* The record of RawFeed an event was built from.
RawOf(id) ==
    CHOOSE ev \in {RawFeed[i] : i \in 1..Len(RawFeed)} : ev.eventid = id

\* Both axes are there under some alias and are finite real numbers.
FiniteAxes(ev) ==
    /\ \E a \in {ev.latitude, ev.lat} : a.kind = "num"
    /\ \E a \in {ev.longitude, ev.lon, ev.lng} : a.kind = "num"
    /\ \A a \in {ev.latitude, ev.lat, ev.longitude, ev.lon, ev.lng} :
         a.kind \in {"num", "missing"}

\* C19: no event in the cache was built from a record with an axis that is
\* missing under every alias or is no finite real number.
C19_BadAxisDropped ==
    \A i \in 1..Len(CACHE.events) : FiniteAxes(RawOf(CACHE.events[i].id))

\* The keyword groups in their order, with the category of each.
KeywordGroups ==
    << [keywords |-> {"fire", "wildfire"}, category |-> "Wildfire"],
       [keywords |-> {"storm", "cyclone", "hurricane", "typhoon"},
        category |-> "Hurricane"],
       [keywords |-> {"flood"}, category |-> "Flood"],
       [keywords |-> {"volcano"}, category |-> "Volcano"],
       [keywords |-> {"earthquake"}, category |-> "Earthquake"] >>

Matches(title, g) ==
    \E k \in KeywordGroups[g].keywords : Contains(Lower(title), k)

\* C20: the type of an event is the category of the first keyword group, in
\* the order fire, storm, flood, volcano, earthquake, with a keyword in the
\* title; the title itself when no group has one.
C20_TypePriority ==
    \A i \in 1..Len(CACHE.events) :
        LET title == RawOf(CACHE.events[i].id).eventtype
            hits == {g \in 1..Len(KeywordGroups) : Matches(title, g)}
        IN  IF hits = {}
            THEN CACHE.events[i].type = title
            ELSE \E g \in hits :
                   /\ \A h \in hits : g <= h
                   /\ CACHE.events[i].type = KeywordGroups[g].category

C20_Witness ==
    /\ Len(CACHE.events) = 6
    /\ CACHE.events[1].id = "r1"
    /\ CACHE.events[1].type = "Wildfire"
    /\ CACHE.events[6].id = "r10"
    /\ CACHE.events[6].type = "Drought"

\* C21 -- the pair of subscriber number ui and event number e of the list a
\* pass walks has a risk tier.
HasTier(t, ui, e) ==
    LET user == USERS[ui]
        event == dp[t].src[e]
    IN  /\ ~DistanceRaises(user.coords, event.coordinates)
        /\ categorize_risk(calculate_distance_miles(user.coords, event.coordinates),
                           event.type) # "None"

\* The pass of t is about to send an alert and has lasted less than the
\* cooldown.
SendsInShortPass(t) ==
    /\ pc[t] = "send"
    /\ clock - dp[t].began < MIN_HOURS

\* The checks that returned True for the subscriber of the alert before the
\* one that admits it.
EarlierAllowed(t) ==
    LET all == hist.allowed[dp[t].user_id]
    IN  SubSeq(all, 1, Len(all) - 1)

\* No cooldown was running for the subscriber when the pass began.
FreeAtStart(t) ==
    LET prior == EarlierAllowed(t)
    IN  \/ prior = <<>>
        \/ dp[t].began - prior[Len(prior)] > MIN_HOURS

\* C21 as stated: in a pass shorter than the cooldown, an alert is sent only
\* for the first event in cache order that has a risk tier for the
\* subscriber; no earlier event of the walk has one.
C21_AlertForFirstInRange ==
    \A t \in DispatchThreads :
        SendsInShortPass(t) =>
            \A e \in 1..(dp[t].ei - 1) : ~HasTier(t, dp[t].ui, e)

\* C21 amended: in a pass shorter than the cooldown, a subscriber is sent at
\* most one alert (every earlier admission of the subscriber is from before
\* the pass began), and when no cooldown was running for the subscriber at
\* the start of the pass the alert is for the first event in cache order
\* that has a risk tier for the subscriber.
C21_OneAlertPerPass ==
    \A t \in DispatchThreads :
        SendsInShortPass(t) =>
            /\ \A k \in 1..Len(EarlierAllowed(t)) :
                   EarlierAllowed(t)[k] < dp[t].began
            /\ FreeAtStart(t) =>
                   \A e \in 1..(dp[t].ei - 1) : ~HasTier(t, dp[t].ui, e)

\* A pass over two events that both have a tier for its only subscriber has
\* ended: the first event was alerted, the check at the second returned
\* False, and the log holds the one alert.
C21_Witness ==
    \E t \in DispatchThreads :
        /\ pc[t] = "proc_ret"
        /\ dp[t].status = "done"
        /\ Len(dp[t].src) = 2
        /\ Len(USERS) = 1
        /\ HasTier(t, 1, 1) /\ HasTier(t, 1, 2)
        /\ hist.allowed[USERS[1].user_id] = <<dp[t].began>>
        /\ dp[t].call.made /\ ~dp[t].call.ret
        /\ Len(ALERTS) = 1
        /\ ALERTS[1].event_id = dp[t].src[1].id

====
